---- MODULE Spec2Model ----
(***************************************************************************)
(* Lead-to-professional-pair assignment of the pro-town backend:           *)
(* routers/lead.py create_lead and choose_pair_for_service_city, run by    *)
(* concurrent request handlers against one relational database.           *)
(*                                                                         *)
(* Every database statement of a handler is one atomic step.  Statements   *)
(* read the rows committed when they start (the READ COMMITTED default of  *)
(* create_engine(DATABASE_URL) on PostgreSQL, db/init.py:14).              *)
(*                                                                         *)
(* Beside it: the administrator's update and delete of leads, storage      *)
(* failures inside the engine, and routers/payment.py                      *)
(* create_square_subscription as its tests call it; the administrator's    *)
(* create, update and delete of pairs (routers/professional_pair.py); what *)
(* the client sends in token and body; the notification emails             *)
(* (utils/email.py) between the commit and the response.                   *)
(***************************************************************************)
EXTENDS Integers, Sequences, FiniteSets, TLC

\* ------------------------------------------------------------------ bounds
\* request handlers that may run at the same time
NumReqs == 2
\* create_lead is not entered once the ledger, with the leads of the calls
\* in flight, would hold more rows than this
MaxLeads == 3
\* rows of the ledger the LedgerSpec starts from
MaxSeed == 2
\* pairs the administrator creates beside the initial ones
MaxNewPairs == 1

\* Python None / a missing key of the request body (falsy, like 0)
Null == 0

Reqs == 1..NumReqs

\* ----------------------------------------------------------------- catalog
\* customers(id, email)
Customers == {[id |-> 1, email |-> "jane@protown.com"],
              [id |-> 2, email |-> "omar@protown.com"]}
Services == {1, 2, 3}
Cities == {1, 2, 3}
States == {1, 2}
\* state_city_pairs(state_id, city_id); city 3 belongs to no state
StateCityPairs == {[state_id |-> 1, city_id |-> 1], [state_id |-> 2, city_id |-> 2]}
\* service_city_pairs(id, service_id, city_id), unique on (service_id, city_id)
ServiceCityPairs ==
    { [id |-> 7,  service_id |-> 1, city_id |-> 1],
      [id |-> 8,  service_id |-> 1, city_id |-> 2],
      [id |-> 9,  service_id |-> 2, city_id |-> 1],
      [id |-> 10, service_id |-> 2, city_id |-> 2] }
\* professional_pairs(id, service_city_pair_id) as the administrator set them
\* up: two pairs for 7 and for 8, a single pair for 9, none for 10
InitialPairs ==
    { [id |-> 100, service_city_pair_id |-> 7],
      [id |-> 101, service_city_pair_id |-> 7],
      [id |-> 102, service_city_pair_id |-> 8],
      [id |-> 103, service_city_pair_id |-> 8],
      [id |-> 104, service_city_pair_id |-> 9] }

ScpIds == {s.id : s \in ServiceCityPairs}

\* ---------------------------------------------------------- request bodies
\* (service_id, city_id) of the requests that pass validation: the four
\* ServiceCityPair rows and (3, 1), which has none
Targets == {<<1, 1>>, <<1, 2>>, <<2, 1>>, <<2, 2>>, <<3, 1>>}

\* the token subject and the keys of the request body the handler reads
Body(sub, svc, city, state, pair, cust) ==
    [sub |-> sub, service_id |-> svc, city_id |-> city, state_id |-> state,
     pair_id |-> pair, customer_id |-> cust]

\* bodies that pass validation: no state_id (it is taken from the city), a
\* pair_id and a customer_id of the client's choosing
GoodBodies ==
    { Body("jane@protown.com", t[1], t[2], Null, p, c) :
        t \in Targets, p \in {Null, 101}, c \in {Null, 5} }

\* a body the validation rejects: the token's customer is unknown
BadBodies ==
    { Body("ghost@protown.com", 1, 1, Null, Null, Null) }

Bodies == GoodBodies \cup BadBodies

\* ------------------------------------------------------------------- state
VARIABLES
    backend,     \* "postgres" (pg_advisory_xact_lock exists) or "other"
    pairs,       \* professional_pairs rows
    leads,       \* committed leads rows, in commit order
    nextLeadId,  \* the leads.id sequence (ids of committed rows only)
    locks,       \* advisory locks held: <<key, owning request>>
    pc,          \* position of each request handler
    data,        \* the handler's data dict after validation
    loc,         \* the locals of choose_pair_for_service_city
    resp,        \* the response of the handler
    commits,     \* history: one entry for each committed create_lead
    aborted,     \* history (AbortSpec): SCP and pair of the last aborted attempt
    sq,          \* the call of create_square_subscription (routers/payment.py)
    nextPairId,  \* the professional_pairs.id sequence
    received,    \* the token subject and request body of each create_lead call
    mail         \* the notification emails the latest committed call attempted

vars == <<backend, pairs, leads, nextLeadId, locks, pc, data, loc, resp,
          commits, aborted, sq, nextPairId, received, mail>>

NoData == [customer_id |-> Null, service_id |-> Null, city_id |-> Null,
           state_id |-> Null]
NoAbort == [scp_id |-> Null, pair_id |-> Null]
\* raised: the statement of the engine that raised in this call, "" if none
NoLoc == [scp_id |-> Null, pair_a |-> Null, pair_b |-> Null,
          total_assigned |-> Null, assigned_pair_id |-> Null, raised |-> ""]
NoResp == [code |-> 0, detail |-> ""]
\* no call of create_square_subscription
NoSq == [pc |-> "none"]
\* no call of create_lead in progress
NoBody == [sub |-> ""]
\* the value the id sequence of a table gives next: above every id in use
NextId(rows) ==
    IF rows = {} THEN 1
    ELSE 1 + (CHOOSE m \in {p.id : p \in rows} : \A p \in rows : p.id <= m)

HTTPException(code, detail) == [code |-> code, detail |-> detail]

\* ------------------------------------------------------- queries (helpers)
\* db.query(Customer).filter(Customer.email == sub).first()
Me(sub) ==
    IF \E c \in Customers : c.email = sub
    THEN (CHOOSE c \in Customers : c.email = sub).id
    ELSE Null

\* db.query(StateCityPair).filter(StateCityPair.city_id == city_id).first()
StateOfCity(city_id) ==
    IF \E p \in StateCityPairs : p.city_id = city_id
    THEN (CHOOSE p \in StateCityPairs : p.city_id = city_id).state_id
    ELSE Null

\* state_id as given, else the state of the city
ResolvedState(b) ==
    IF b.state_id = Null THEN StateOfCity(b.city_id) ELSE b.state_id

\* the checks of create_lead before the engine is called, in order; NoResp
\* when the body passes them all
Validate(b) ==
    IF Me(b.sub) = Null
    THEN HTTPException(403, "Customer not found for this token")
    ELSE IF b.service_id = Null \/ b.city_id = Null
    THEN HTTPException(400, "service_id and city_id are required")
    ELSE IF b.service_id \notin Services
    THEN HTTPException(400, "Invalid service_id")
    ELSE IF b.city_id \notin Cities
    THEN HTTPException(400, "Invalid city_id")
    ELSE IF b.state_id = Null /\ StateOfCity(b.city_id) = Null
    THEN HTTPException(400,
           "state_id is required. City is not associated with any state. Please provide state_id in the request.")
    ELSE IF ResolvedState(b) \notin States
    THEN HTTPException(400, "Invalid state_id")
    ELSE NoResp

\* the ServiceCityPair row of (service_id, city_id): its id, or Null
QueryScp(service_id, city_id) ==
    IF \E s \in ServiceCityPairs : s.service_id = service_id /\ s.city_id = city_id
    THEN (CHOOSE s \in ServiceCityPairs :
             s.service_id = service_id /\ s.city_id = city_id).id
    ELSE Null

RECURSIVE SortAsc(_)
\* order_by(ProfessionalPair.id.asc())
SortAsc(S) ==
    IF S = {} THEN <<>>
    ELSE LET m == CHOOSE x \in S : \A y \in S : x <= y
         IN  <<m>> \o SortAsc(S \ {m})

\* mutant: the filter on the ServiceCityPair is missing
QueryPairsAll(ps, scp_id) == SortAsc({p.id : p \in ps})

\* ids of the ProfessionalPair rows of a ServiceCityPair, ascending
QueryPairs(ps, scp_id) ==
    SortAsc({p.id : p \in {q \in ps : q.service_city_pair_id = scp_id}})

\* mutant: one key for every ServiceCityPair
LockKeyGlobal(scp_id) == 1

\* the key of pg_advisory_xact_lock: int(scp.id)
LockKey(scp_id) == scp_id

\* mutant: the lock statement never waits
LockGrantedAlways(held, key, r) == TRUE

\* the statement returns once no other session holds the key
LockGranted(held, key, r) == \A l \in held : l[1] = key => l[2] = r

\* mutant: only the leads of pair A are counted
TotalAssignedOnlyA(ls, a, b) ==
    Cardinality({i \in 1..Len(ls) : ls[i].pair_id = a})

\* mutant: every lead is counted, whatever its pair
TotalAssignedAll(ls, a, b) == Len(ls)

\* count(Lead.id) where Lead.pair_id in (pair_a.id, pair_b.id)
TotalAssigned(ls, a, b) ==
    Cardinality({i \in 1..Len(ls) : ls[i].pair_id \in {a, b}})

\* mutant: the parity test is inverted
ChoiceOddFirst(total, a, b) == IF total % 2 = 1 THEN a ELSE b

\* pair_a.id if total_assigned % 2 == 0 else pair_b.id
Choice(total, a, b) == IF total % 2 = 0 THEN a ELSE b

\* what the end of a transaction does to the advisory locks of request r
ReleaseLocks(held, r) == {l \in held : l[2] # r}

\* Lead(**data) as the row the INSERT writes
LeadRow(id, d, pair_id) ==
    [id |-> id, customer_id |-> d.customer_id, service_id |-> d.service_id,
     city_id |-> d.city_id, state_id |-> d.state_id, pair_id |-> pair_id]

\* choose_pair_for_service_city as a function of the committed rows: the
\* pair id it returns, or the detail of the HTTPException it raises
ChoosePair(ls, ps, service_id, city_id) ==
    LET scp_id == QueryScp(service_id, city_id)
        ids    == QueryPairs(ps, scp_id)
    IN  IF scp_id = Null
        THEN [pair_id |-> Null, detail |-> "No service_city_pair for given service/city"]
        ELSE IF Len(ids) < 2
        THEN [pair_id |-> Null,
              detail |-> "Admin must configure two pairs for this service/city"]
        ELSE [pair_id |-> Choice(TotalAssigned(ls, ids[1], ids[2]), ids[1], ids[2]),
              detail |-> ""]

\* ------------------------------------------------------------ create_lead
\* calls that have passed validation and have not yet committed or failed
InFlight == {q \in Reqs : pc[q] \in {"resolve", "fetch", "lock", "count", "insert"}}

\* the handler is entered with a token and a request body drawn from B:
\* customer lookup and validation of service, city and state; then
\* customer_id is forced from the token, state_id is set and the client's
\* pair_id is dropped
BeginWith(r, B) ==
    /\ pc[r] = "idle"
    /\ Len(leads) + Cardinality(InFlight) < MaxLeads
    /\ \E b \in B :
         IF Validate(b) = NoResp
         THEN /\ pc' = [pc EXCEPT ![r] = "resolve"]
              /\ data' = [data EXCEPT ![r] =
                            [customer_id |-> Me(b.sub), service_id |-> b.service_id,
                             city_id |-> b.city_id, state_id |-> ResolvedState(b)]]
              /\ resp' = resp
         ELSE /\ pc' = [pc EXCEPT ![r] = "closing"]
              /\ resp' = [resp EXCEPT ![r] = Validate(b)]
              /\ data' = data
    /\ UNCHANGED <<mail, received, nextPairId, sq, backend, pairs, leads, nextLeadId, locks, loc, commits, aborted>>

Begin(r) == BeginWith(r, Bodies)

\* mutant: without a service_city_pair row the lead is created with no pair
ResolveScpFallsBack(r) ==
    /\ pc[r] = "resolve"
    /\ LET scp_id == QueryScp(data[r].service_id, data[r].city_id)
       IN  IF scp_id = Null
           THEN /\ pc' = [pc EXCEPT ![r] = "insert"]
                /\ loc' = loc
           ELSE /\ pc' = [pc EXCEPT ![r] = "fetch"]
                /\ loc' = [loc EXCEPT ![r].scp_id = scp_id]
    /\ UNCHANGED <<mail, received, nextPairId, sq, backend, pairs, leads, nextLeadId, locks, data, resp, commits, aborted>>

\* choose_pair_for_service_city: resolve the service_city_pair row
ResolveScp(r) ==
    /\ pc[r] = "resolve"
    /\ LET scp_id == QueryScp(data[r].service_id, data[r].city_id)
       IN  IF scp_id = Null
           THEN /\ pc' = [pc EXCEPT ![r] = "closing"]
                /\ resp' = [resp EXCEPT ![r] =
                     HTTPException(400, "No service_city_pair for given service/city")]
                /\ UNCHANGED <<data, loc>>
           ELSE /\ pc' = [pc EXCEPT ![r] = "fetch"]
                /\ loc' = [loc EXCEPT ![r].scp_id = scp_id]
                /\ UNCHANGED <<resp, data>>
    /\ UNCHANGED <<mail, received, nextPairId, sq, backend, pairs, leads, nextLeadId, locks, commits, aborted>>

\* mutant: the lock is taken before the pairs are fetched and checked
FetchPairsLocksFirst(r) ==
    /\ pc[r] = "fetch"
    /\ LockGranted(locks, LockKey(loc[r].scp_id), r)
    /\ locks' = locks \cup {<<LockKey(loc[r].scp_id), r>>}
    /\ LET ids == QueryPairs(pairs, loc[r].scp_id)
       IN  IF Len(ids) < 2
           THEN /\ pc' = [pc EXCEPT ![r] = "closing"]
                /\ resp' = [resp EXCEPT ![r] = HTTPException(400,
                     "Admin must configure two pairs for this service/city")]
                /\ UNCHANGED <<data, loc>>
           ELSE /\ pc' = [pc EXCEPT ![r] = "lock"]
                /\ loc' = [loc EXCEPT ![r].pair_a = ids[1], ![r].pair_b = ids[2]]
                /\ UNCHANGED <<resp, data>>
    /\ UNCHANGED <<mail, received, nextPairId, sq, backend, pairs, leads, nextLeadId, commits, aborted>>

\* mutant: a single pair is accepted and serves as both slots
FetchPairsAcceptsOne(r) ==
    /\ pc[r] = "fetch"
    /\ LET ids == QueryPairs(pairs, loc[r].scp_id)
       IN  IF Len(ids) < 1
           THEN /\ pc' = [pc EXCEPT ![r] = "closing"]
                /\ resp' = [resp EXCEPT ![r] = HTTPException(400,
                     "Admin must configure two pairs for this service/city")]
                /\ UNCHANGED <<data, loc>>
           ELSE /\ pc' = [pc EXCEPT ![r] = "lock"]
                /\ loc' = [loc EXCEPT ![r].pair_a = ids[1], ![r].pair_b = ids[Len(ids)]]
                /\ UNCHANGED <<resp, data>>
    /\ UNCHANGED <<mail, received, nextPairId, sq, backend, pairs, leads, nextLeadId, locks, commits, aborted>>

\* mutant: the two rows of highest id are taken
FetchPairsLastTwo(r) ==
    /\ pc[r] = "fetch"
    /\ LET ids == QueryPairs(pairs, loc[r].scp_id)
       IN  IF Len(ids) < 2
           THEN /\ pc' = [pc EXCEPT ![r] = "closing"]
                /\ resp' = [resp EXCEPT ![r] = HTTPException(400,
                     "Admin must configure two pairs for this service/city")]
                /\ UNCHANGED <<data, loc>>
           ELSE /\ pc' = [pc EXCEPT ![r] = "lock"]
                /\ loc' = [loc EXCEPT ![r].pair_a = ids[Len(ids) - 1],
                                      ![r].pair_b = ids[Len(ids)]]
                /\ UNCHANGED <<resp, data>>
    /\ UNCHANGED <<mail, received, nextPairId, sq, backend, pairs, leads, nextLeadId, locks, commits, aborted>>

\* choose_pair_for_service_city: fetch the pairs of the SCP, lowest id first
FetchPairs(r) ==
    /\ pc[r] = "fetch"
    /\ LET ids == QueryPairs(pairs, loc[r].scp_id)
       IN  IF Len(ids) < 2
           THEN /\ pc' = [pc EXCEPT ![r] = "closing"]
                /\ resp' = [resp EXCEPT ![r] = HTTPException(400,
                     "Admin must configure two pairs for this service/city")]
                /\ UNCHANGED <<data, loc>>
           ELSE /\ pc' = [pc EXCEPT ![r] = "lock"]
                /\ loc' = [loc EXCEPT ![r].pair_a = ids[1], ![r].pair_b = ids[2]]
                /\ UNCHANGED <<resp, data>>
    /\ UNCHANGED <<mail, received, nextPairId, sq, backend, pairs, leads, nextLeadId, locks, commits, aborted>>

\* mutant: the lock statement runs in a transaction of its own (autocommit),
\* which ends, and gives the lock up, before the count
AcquireLockThenCommit(r) ==
    /\ pc[r] = "lock"
    /\ backend = "postgres"
    /\ LockGranted(locks, LockKey(loc[r].scp_id), r)
    /\ pc' = [pc EXCEPT ![r] = "count"]
    /\ UNCHANGED <<mail, received, nextPairId, sq, backend, pairs, leads, nextLeadId, locks, data, loc, resp,
                   commits, aborted>>

\* SELECT pg_advisory_xact_lock(:k) returns: the statement waits while
\* another transaction holds the key
AcquireLock(r) ==
    /\ pc[r] = "lock"
    /\ backend = "postgres"
    /\ LockGranted(locks, LockKey(loc[r].scp_id), r)
    /\ locks' = locks \cup {<<LockKey(loc[r].scp_id), r>>}
    /\ pc' = [pc EXCEPT ![r] = "count"]
    /\ UNCHANGED <<mail, received, nextPairId, sq, backend, pairs, leads, nextLeadId, data, loc, resp, commits, aborted>>

\* mutant: the exception of the lock statement is not caught
LockUnavailableFails(r) ==
    /\ pc[r] = "lock"
    /\ backend = "other"
    /\ loc' = [loc EXCEPT ![r].raised = "lock"]
    /\ pc' = [pc EXCEPT ![r] = "closing"]
    /\ resp' = [resp EXCEPT ![r] = HTTPException(500, "Internal Server Error")]
    /\ UNCHANGED <<mail, received, nextPairId, sq, backend, pairs, leads, nextLeadId, locks, data, commits, aborted>>

\* the lock statement raises where the function does not exist; the
\* exception is swallowed and the handler goes on without the lock
LockUnavailable(r) ==
    /\ pc[r] = "lock"
    /\ backend = "other"
    /\ loc' = [loc EXCEPT ![r].raised = "lock"]
    /\ pc' = [pc EXCEPT ![r] = "count"]
    /\ UNCHANGED <<mail, received, nextPairId, sq, backend, pairs, leads, nextLeadId, locks, data, resp,
                   commits, aborted>>

\* mutant: the slot follows the number of leads ever committed for the
\* ServiceCityPair, not the rows the ledger holds now
CountLeadsEverCommitted(r) ==
    /\ pc[r] = "count"
    /\ ~(backend = "postgres" /\ loc[r].raised # "")
    /\ LET total == Cardinality({i \in 1..Len(commits) :
                                   commits[i].scp_id = loc[r].scp_id})
       IN  loc' = [loc EXCEPT ![r].total_assigned = total,
                              ![r].assigned_pair_id =
                                  Choice(total, loc[r].pair_a, loc[r].pair_b)]
    /\ pc' = [pc EXCEPT ![r] = "insert"]
    /\ UNCHANGED <<mail, received, nextPairId, sq, backend, pairs, leads, nextLeadId, locks, data, resp, commits, aborted>>

\* count the leads of pair A or B and pick by parity; PostgreSQL runs no
\* statement in a transaction in which a statement has failed
CountLeads(r) ==
    /\ pc[r] = "count"
    /\ ~(backend = "postgres" /\ loc[r].raised # "")
    /\ LET total == TotalAssigned(leads, loc[r].pair_a, loc[r].pair_b)
       IN  loc' = [loc EXCEPT ![r].total_assigned = total,
                              ![r].assigned_pair_id =
                                  Choice(total, loc[r].pair_a, loc[r].pair_b)]
    /\ pc' = [pc EXCEPT ![r] = "insert"]
    /\ UNCHANGED <<mail, received, nextPairId, sq, backend, pairs, leads, nextLeadId, locks, data, resp, commits, aborted>>

\* mutant: the reference of a lead to its pair is not enforced
ForeignKeyUnchecked(b, ps, pair_id) == TRUE

\* leads.pair_id = Column(Integer, ForeignKey("professional_pairs.id"),
\* nullable=True), as PostgreSQL enforces it when a statement ends; what
\* another backend does with the constraint is left open
ForeignKeyHolds(b, ps, pair_id) ==
    b = "postgres" => (pair_id = Null \/ pair_id \in {p.id : p \in ps})

\* mutant: a pair_id in the body is kept
CommitLeadKeepsClientPair(r) ==
    /\ pc[r] = "insert"
    /\ ForeignKeyHolds(backend, pairs, loc[r].assigned_pair_id)
    /\ leads' = Append(leads, LeadRow(nextLeadId, data[r],
                          IF received[r].pair_id # Null THEN received[r].pair_id
                          ELSE loc[r].assigned_pair_id))
    /\ nextLeadId' = nextLeadId + 1
    /\ locks' = ReleaseLocks(locks, r)
    /\ pc' = [pc EXCEPT ![r] = "respond"]
    /\ data' = [data EXCEPT ![r] = NoData]
    /\ loc' = [loc EXCEPT ![r] = NoLoc]
    /\ commits' = Append(commits, [scp_id |-> loc[r].scp_id,
                                   pair_id |-> loc[r].assigned_pair_id,
                                   seen |-> loc[r].total_assigned])
    /\ aborted' = IF aborted.scp_id = loc[r].scp_id THEN NoAbort ELSE aborted
    /\ UNCHANGED <<mail, received, nextPairId, sq, backend, pairs, resp>>

\* mutant: the row is written over the newest row of the ledger
CommitLeadOverwrites(r) ==
    /\ pc[r] = "insert"
    /\ ForeignKeyHolds(backend, pairs, loc[r].assigned_pair_id)
    /\ leads' = IF leads = <<>>
                THEN <<LeadRow(nextLeadId, data[r], loc[r].assigned_pair_id)>>
                ELSE [leads EXCEPT ![Len(leads)] =
                        LeadRow(nextLeadId, data[r], loc[r].assigned_pair_id)]
    /\ nextLeadId' = nextLeadId + 1
    /\ locks' = ReleaseLocks(locks, r)
    /\ pc' = [pc EXCEPT ![r] = "respond"]
    /\ data' = [data EXCEPT ![r] = NoData]
    /\ loc' = [loc EXCEPT ![r] = NoLoc]
    /\ commits' = Append(commits, [scp_id |-> loc[r].scp_id,
                                   pair_id |-> loc[r].assigned_pair_id,
                                   seen |-> loc[r].total_assigned])
    /\ aborted' = IF aborted.scp_id = loc[r].scp_id THEN NoAbort ELSE aborted
    /\ UNCHANGED <<mail, received, nextPairId, sq, backend, pairs, resp>>

\* Lead(**data); db.add(lead); db.commit() succeeds: the row is committed and
\* the transaction's advisory locks are released
CommitLead(r) ==
    /\ pc[r] = "insert"
    /\ ForeignKeyHolds(backend, pairs, loc[r].assigned_pair_id)
    /\ leads' = Append(leads, LeadRow(nextLeadId, data[r], loc[r].assigned_pair_id))
    /\ nextLeadId' = nextLeadId + 1
    /\ locks' = ReleaseLocks(locks, r)
    /\ pc' = [pc EXCEPT ![r] = "respond"]
    /\ data' = [data EXCEPT ![r] = NoData]
    /\ loc' = [loc EXCEPT ![r] = NoLoc]
    /\ commits' = Append(commits, [scp_id |-> loc[r].scp_id,
                                   pair_id |-> loc[r].assigned_pair_id,
                                   seen |-> loc[r].total_assigned])
    /\ aborted' = IF aborted.scp_id = loc[r].scp_id THEN NoAbort ELSE aborted
    /\ UNCHANGED <<mail, received, nextPairId, sq, backend, pairs, resp>>

\* mutant: the failed attempt leaves its row in the ledger
RaiseKeepsRow(r) ==
    /\ pc[r] = "insert"
    /\ leads' = Append(leads, LeadRow(nextLeadId, data[r], loc[r].assigned_pair_id))
    /\ nextLeadId' = nextLeadId + 1
    /\ pc' = [pc EXCEPT ![r] = "closing"]
    /\ resp' = [resp EXCEPT ![r] = HTTPException(500, "Internal Server Error")]
    /\ data' = [data EXCEPT ![r] = NoData]
    /\ loc' = [loc EXCEPT ![r] = NoLoc]
    /\ locks' \in {locks, ReleaseLocks(locks, r)}
    /\ UNCHANGED <<mail, received, nextPairId, sq, backend, pairs, commits>>

\* Lead(**data) or db.commit() raises (a description that is missing, NOT
\* NULL in models/lead.py:9, or too long; a key that is no column; the
\* storage failing): no row is written and the exception leaves the handler.
\* A flush that fails rolls the transaction back at once, which releases its
\* locks; an exception raised before the INSERT leaves the transaction open
\* until the session is closed.
Raise(r) ==
    /\ pc[r] = "insert"
    /\ pc' = [pc EXCEPT ![r] = "closing"]
    /\ resp' = [resp EXCEPT ![r] = HTTPException(500, "Internal Server Error")]
    /\ data' = [data EXCEPT ![r] = NoData]
    /\ loc' = [loc EXCEPT ![r] = NoLoc]
    /\ locks' \in {locks, ReleaseLocks(locks, r)}
    /\ UNCHANGED <<mail, received, nextPairId, sq, backend, pairs, leads, nextLeadId, commits>>

CommitRaises(r) == Raise(r) /\ aborted' = aborted

\* the same step, with the history of aborted attempts kept: the attempt is
\* noted when no lead of its pairs was committed since it counted
CommitRaisesNoted(r) ==
    /\ Raise(r)
    /\ aborted' = IF TotalAssigned(leads, loc[r].pair_a, loc[r].pair_b)
                        = loc[r].total_assigned
                  THEN [scp_id |-> loc[r].scp_id, pair_id |-> loc[r].assigned_pair_id]
                  ELSE aborted

\* db.refresh(lead), the enrichment queries, the notification emails and the
\* 201 response
Respond(r) ==
    /\ pc[r] = "respond"
    /\ pc' = [pc EXCEPT ![r] = "closing"]
    /\ resp' = [resp EXCEPT ![r] = [code |-> 201, detail |-> ""]]
    /\ UNCHANGED <<mail, received, nextPairId, sq, backend, pairs, leads, nextLeadId, locks, data, loc, commits, aborted>>

\* mutant: the lock outlives the session (a session-level advisory lock)
CloseSessionKeepsLocks(r) ==
    /\ pc[r] = "closing"
    /\ pc' = [pc EXCEPT ![r] = "idle"]
    /\ resp' = [resp EXCEPT ![r] = NoResp]
    /\ data' = [data EXCEPT ![r] = NoData]
    /\ loc' = [loc EXCEPT ![r] = NoLoc]
    /\ UNCHANGED <<mail, received, nextPairId, sq, backend, pairs, leads, nextLeadId, locks, commits, aborted>>

\* get_db's finally: db.close() rolls back what is open, which ends the
\* transaction and with it every advisory lock it holds
CloseSession(r) ==
    /\ pc[r] = "closing"
    /\ locks' = ReleaseLocks(locks, r)
    /\ pc' = [pc EXCEPT ![r] = "idle"]
    /\ resp' = [resp EXCEPT ![r] = NoResp]
    /\ data' = [data EXCEPT ![r] = NoData]
    /\ loc' = [loc EXCEPT ![r] = NoLoc]
    /\ UNCHANGED <<mail, received, nextPairId, sq, backend, pairs, leads, nextLeadId, commits, aborted>>

\* ---------------------------------------------------------- specifications
Init ==
    /\ backend \in {"postgres", "other"}
    /\ pairs = InitialPairs
    /\ leads = <<>>
    /\ nextLeadId = 1
    /\ locks = {}
    /\ pc = [r \in Reqs |-> "idle"]
    /\ data = [r \in Reqs |-> NoData]
    /\ loc = [r \in Reqs |-> NoLoc]
    /\ resp = [r \in Reqs |-> NoResp]
    /\ commits = <<>>
    /\ aborted = NoAbort
    /\ sq = NoSq
    /\ nextPairId = NextId(pairs)
    /\ received = [r \in Reqs |-> NoBody]
    /\ mail = {}

Step(r) ==
    \/ Begin(r)
    \/ ResolveScp(r)
    \/ FetchPairs(r)
    \/ AcquireLock(r)
    \/ LockUnavailable(r)
    \/ CountLeads(r)
    \/ CommitLead(r)
    \/ CommitRaises(r)
    \/ Respond(r)
    \/ CloseSession(r)

Next == \E r \in Reqs : Step(r)

\* create_lead handlers running concurrently
Spec == Init /\ [][Next]_vars

\* create_lead handlers called one after the other: a call begins only when
\* no other call is in its handler
BeginAlone(r) ==
    /\ \A q \in Reqs : pc[q] = "idle"
    /\ Begin(r)

NextSeq ==
    \E r \in Reqs :
        \/ BeginAlone(r)
        \/ ResolveScp(r)
        \/ FetchPairs(r)
        \/ AcquireLock(r)
        \/ LockUnavailable(r)
        \/ CountLeads(r)
        \/ CommitLead(r)
        \/ CommitRaises(r)
        \/ Respond(r)
        \/ CloseSession(r)

SeqSpec == Init /\ [][NextSeq]_vars

\* concurrent create_lead handlers, with the history of aborted attempts
NextNoted ==
    \E r \in Reqs :
        \/ Begin(r)
        \/ ResolveScp(r)
        \/ FetchPairs(r)
        \/ AcquireLock(r)
        \/ LockUnavailable(r)
        \/ CountLeads(r)
        \/ CommitLead(r)
        \/ CommitRaisesNoted(r)
        \/ Respond(r)
        \/ CloseSession(r)

AbortSpec == Init /\ [][NextNoted]_vars

\* a handler that has entered create_lead runs to its end: every step but
\* the arrival of a new request is taken once it stays possible
Progress(r) ==
    \/ ResolveScp(r)
    \/ FetchPairs(r)
    \/ AcquireLock(r)
    \/ CountLeads(r)
    \/ CommitLead(r)
    \/ CommitRaises(r)
    \/ Respond(r)
    \/ CloseSession(r)

\* the deployment on PostgreSQL, where the lock statement never raises
InitPostgres == Init /\ backend = "postgres"

NextPostgres == \E r \in Reqs : Begin(r) \/ Progress(r)

FairSpec ==
    InitPostgres /\ [][NextPostgres]_vars /\ \A r \in Reqs : WF_vars(Progress(r))

\* fair scheduling with the lock manager of PostgreSQL, which hands a lock
\* that is released to a transaction waiting for it: a call that finds the
\* lock free again and again is not passed over for ever
FairLockSpec ==
    FairSpec /\ \A r \in Reqs : SF_vars(AcquireLock(r))

\* the ledger as the administrator's lead update and delete (lead.py:458-476)
\* can leave it: rows with any pair_id that is null or an existing pair
SeedPairIds == {Null} \cup {p.id : p \in InitialPairs}

SeedLedgers ==
    UNION { [1..n -> SeedPairIds] : n \in 0..MaxSeed }

InitLedger ==
    /\ backend \in {"postgres", "other"}
    /\ pairs = InitialPairs
    /\ \E f \in SeedLedgers :
          /\ leads = [i \in 1..Len(f) |->
                        [id |-> i, customer_id |-> 1, service_id |-> 1,
                         city_id |-> 1, state_id |-> 1, pair_id |-> f[i]]]
          /\ nextLeadId = Len(f) + 1
    /\ locks = {}
    /\ pc = [r \in Reqs |-> "idle"]
    /\ data = [r \in Reqs |-> NoData]
    /\ loc = [r \in Reqs |-> NoLoc]
    /\ resp = [r \in Reqs |-> NoResp]
    /\ commits = <<>>
    /\ aborted = NoAbort
    /\ sq = NoSq
    /\ nextPairId = NextId(pairs)
    /\ received = [r \in Reqs |-> NoBody]
    /\ mail = {}

\* sequential create_lead calls on a ledger of any content
LedgerSpec == InitLedger /\ [][NextSeq]_vars

\* ------------------------------------------------------- storage failures
\* mutant: a count that fails is taken as zero and the engine goes on
StatementRaisesMasked(r) ==
    /\ pc[r] \in {"resolve", "fetch", "count"}
    /\ IF pc[r] = "count"
       THEN /\ loc' = [loc EXCEPT ![r].raised = "count", ![r].total_assigned = 0,
                                  ![r].assigned_pair_id = loc[r].pair_a]
            /\ pc' = [pc EXCEPT ![r] = "insert"]
            /\ resp' = resp
       ELSE /\ loc' = [loc EXCEPT ![r].raised = pc[r]]
            /\ pc' = [pc EXCEPT ![r] = "closing"]
            /\ resp' = [resp EXCEPT ![r] = HTTPException(500, "Internal Server Error")]
    /\ UNCHANGED <<mail, received, nextPairId, sq, backend, pairs, leads, nextLeadId, locks, data, commits, aborted>>

\* a query of the engine raises because the storage fails (the SELECT of the
\* ServiceCityPair, of the pairs, or the count): nothing catches it, so it
\* leaves the engine and create_lead; the transaction stays open until the
\* session is closed
StatementRaises(r) ==
    /\ pc[r] \in {"resolve", "fetch", "count"}
    /\ loc' = [loc EXCEPT ![r].raised = pc[r]]
    /\ pc' = [pc EXCEPT ![r] = "closing"]
    /\ resp' = [resp EXCEPT ![r] = HTTPException(500, "Internal Server Error")]
    /\ UNCHANGED <<mail, received, nextPairId, sq, backend, pairs, leads, nextLeadId, locks, data, commits, aborted>>

\* the lock statement raises on PostgreSQL because the storage fails: except
\* Exception: pass swallows it and the engine goes on to the count, in a
\* transaction the failed statement has aborted
LockRaises(r) ==
    /\ pc[r] = "lock"
    /\ backend = "postgres"
    /\ loc' = [loc EXCEPT ![r].raised = "lock"]
    /\ pc' = [pc EXCEPT ![r] = "count"]
    /\ UNCHANGED <<mail, received, nextPairId, sq, backend, pairs, leads, nextLeadId, locks, data, resp,
                   commits, aborted>>

\* the count in the aborted transaction: PostgreSQL ignores the command and
\* the driver raises, which leaves the engine and create_lead
CountInFailedTransaction(r) ==
    /\ pc[r] = "count"
    /\ backend = "postgres" /\ loc[r].raised # ""
    /\ pc' = [pc EXCEPT ![r] = "closing"]
    /\ resp' = [resp EXCEPT ![r] = HTTPException(500, "Internal Server Error")]
    /\ UNCHANGED <<mail, received, nextPairId, sq, backend, pairs, leads, nextLeadId, locks, data, loc,
                   commits, aborted>>

NextFault ==
    \E r \in Reqs :
        \/ Step(r)
        \/ StatementRaises(r)
        \/ LockRaises(r)
        \/ CountInFailedTransaction(r)

\* concurrent create_lead handlers on a storage whose statements may fail
FaultSpec == Init /\ [][NextFault]_vars

\* ------------------------------------------------- administrator's lead paths
\* the bodies of the administrator's PUT /leads/{id} the model draws from:
\* pair_id set to null, to the other pair of ServiceCityPair 7, to a pair of
\* another ServiceCityPair (leads.pair_id is a foreign key, lead.py:14)
UpdateBodies == {[pair_id |-> v] : v \in {Null, 101, 103}}

\* update (lead.py:458-467): setattr for every key of the body, then commit;
\* an id that names no row gives 404 and changes nothing
UpdateLead(id, body) ==
    /\ \E i \in 1..Len(leads) :
          /\ leads[i].id = id
          /\ leads' = [leads EXCEPT ![i].pair_id = body.pair_id]
    /\ UNCHANGED <<mail, received, nextPairId, sq, backend, pairs, nextLeadId, locks, pc, data, loc, resp,
                   commits, aborted>>

\* delete (lead.py:469-476): the row is removed and the removal committed
DeleteLead(id) ==
    /\ \E i \in 1..Len(leads) :
          /\ leads[i].id = id
          /\ leads' = SubSeq(leads, 1, i - 1) \o SubSeq(leads, i + 1, Len(leads))
    /\ UNCHANGED <<mail, received, nextPairId, sq, backend, pairs, nextLeadId, locks, pc, data, loc, resp,
                   commits, aborted>>

\* create_lead is entered, by calls that do not overlap, while the ids the
\* leads sequence has handed out stay within the bound
BeginCapped(r) ==
    /\ nextLeadId <= MaxLeads
    /\ BeginAlone(r)

NextAdmin ==
    \/ \E r \in Reqs :
          \/ BeginCapped(r)
          \/ ResolveScp(r)
          \/ FetchPairs(r)
          \/ AcquireLock(r)
          \/ LockUnavailable(r)
          \/ CountLeads(r)
          \/ CommitLead(r)
          \/ CommitRaises(r)
          \/ Respond(r)
          \/ CloseSession(r)
    \/ \E id \in 1..MaxLeads, body \in UpdateBodies : UpdateLead(id, body)
    \/ \E id \in 1..MaxLeads : DeleteLead(id)

\* create_lead calls, one after the other, with the administrator updating
\* and deleting leads at any moment
AdminSpec == Init /\ [][NextAdmin]_vars

\* bodies for ServiceCityPair 7, which has the two pairs 100 and 101
PairedBodies ==
    {b \in GoodBodies : QueryScp(b.service_id, b.city_id) = 7}

\* create_lead is entered for the ServiceCityPair with two pairs
BeginPaired(r) ==
    /\ nextLeadId <= MaxLeads
    /\ \A q \in Reqs : pc[q] = "idle"
    /\ BeginWith(r, PairedBodies)

NextParity ==
    \/ \E r \in Reqs : BeginPaired(r) \/ Progress(r)
    \/ \E id \in 1..MaxLeads, body \in UpdateBodies : UpdateLead(id, body)
    \/ \E id \in 1..MaxLeads : DeleteLead(id)

\* create_lead calls on PostgreSQL for a ServiceCityPair with two pairs,
\* one after the other, with the administrator updating and deleting leads
\* at any moment
ParitySpec == InitPostgres /\ [][NextParity]_vars

\* ------------------------------------------------- client-supplied state
\* request bodies that name a state_id: none, the state of the city, another
\* state, a state that does not exist; for a city with a state, for the city
\* that has none, and for a city that does not exist
StateBodies ==
    { Body("jane@protown.com", 1, c, st, Null, Null) :
        c \in {1, 2, 3, 4}, st \in {Null, 1, 2, 9} }

\* create_lead is entered with such a body, by calls that do not overlap
BeginState(r) ==
    /\ \A q \in Reqs : pc[q] = "idle"
    /\ BeginWith(r, StateBodies)

NextState ==
    \E r \in Reqs :
        \/ BeginState(r)
        \/ ResolveScp(r)
        \/ FetchPairs(r)
        \/ AcquireLock(r)
        \/ LockUnavailable(r)
        \/ CountLeads(r)
        \/ CommitLead(r)
        \/ CommitRaises(r)
        \/ Respond(r)
        \/ CloseSession(r)

\* sequential create_lead calls whose bodies name a state_id
StateSpec == Init /\ [][NextState]_vars

\* ------------------------------------------------ more than two pairs
\* the professional_pairs table after drift: ServiceCityPair 7 has a third
\* row above its two, ServiceCityPair 8 a third row below its two (rows are
\* created and moved freely, professional_pair.py:25-84)
DriftPairs ==
    InitialPairs \cup { [id |-> 105, service_city_pair_id |-> 7],
                        [id |-> 99,  service_city_pair_id |-> 8] }

\* pair ids of the leads the ledger starts with: a counted row of 7, the
\* uncounted row of 7, the uncounted row of 8
DriftSeedIds == {100, 105, 103}

DriftLedgers ==
    UNION { [1..n -> DriftSeedIds] : n \in 0..MaxSeed }

InitDrift ==
    /\ backend \in {"postgres", "other"}
    /\ pairs = DriftPairs
    /\ \E f \in DriftLedgers :
          /\ leads = [i \in 1..Len(f) |->
                        [id |-> i, customer_id |-> 1, service_id |-> 1,
                         city_id |-> IF f[i] = 103 THEN 2 ELSE 1,
                         state_id |-> IF f[i] = 103 THEN 2 ELSE 1,
                         pair_id |-> f[i]]]
          /\ nextLeadId = Len(f) + 1
    /\ locks = {}
    /\ pc = [r \in Reqs |-> "idle"]
    /\ data = [r \in Reqs |-> NoData]
    /\ loc = [r \in Reqs |-> NoLoc]
    /\ resp = [r \in Reqs |-> NoResp]
    /\ commits = <<>>
    /\ aborted = NoAbort
    /\ sq = NoSq
    /\ nextPairId = NextId(pairs)
    /\ received = [r \in Reqs |-> NoBody]
    /\ mail = {}

\* sequential create_lead calls where ServiceCityPairs have three pairs
DriftSpec == InitDrift /\ [][NextSeq]_vars

\* ------------------------------------------- create_square_subscription
\* None, a keyword that is not given, the empty string: all falsy
Absent == ""

\* the variables of the lead assignment, which the subscription leaves alone
leadVars == <<backend, pairs, leads, nextLeadId, locks, pc, data, loc, resp,
              commits, aborted, nextPairId, received, mail>>

\* the keyword arguments CreateSubscriptionRequest is built from
SubscriptionKwargs ==
    [plan_variation_id : {"plan_var_123", "LYIAHPLNYRD3AX5FPCDDYDV3"},
     source_id : {Absent, "cnon:card-nonce-123"},
     card_id : {Absent, "ccof_123"},
     customer_id : {Absent, "cust_123"},
     location_id : {Absent, "loc_123"}]

\* get_optional_user: no token, or the payload of the token
NoPayload == [sub |-> Absent, role |-> Absent]
Payloads ==
    { NoPayload,
      [sub |-> "pro@protown.com", role |-> "professionals"],
      [sub |-> "gone@protown.com", role |-> "professionals"],
      [sub |-> "jane@protown.com", role |-> "customers"] }

\* professionals(email)
ProfessionalEmails == {"pro@protown.com"}

\* os.getenv("SQUARE_LOCATION_ID", "")
EnvLocations == {Absent, "loc_env"}

\* what utils.square_client.create_subscription may return
SquareResults ==
    {[success |-> TRUE, http_status |-> 200]} \cup
    {[success |-> FALSE, http_status |-> h] : h \in {400, 401, 403, 404, 500}}

NoRequest == [plan_variation_id |-> Absent, source_id |-> Absent,
              location_id |-> Absent, idempotency_key |-> Absent]
NoResponse == [kind |-> "", status |-> 0, detail |-> "", customer_id |-> Absent]

Raised(status, detail) ==
    [kind |-> "HTTPException", status |-> status, detail |-> detail,
     customer_id |-> Absent]

\* CreateSubscriptionRequest(**kwargs): plan_variation_id and source_id are
\* required strings, location_id and idempotency_key optional; the model
\* declares no card_id and no customer_id, and keywords it does not declare
\* are dropped.  Without a source_id the constructor raises ValidationError.
ConstructRequest ==
    /\ sq.pc = "construct"
    /\ IF sq.kwargs.source_id = Absent
       THEN sq' = [sq EXCEPT !.pc = "done",
                             !.response = [NoResponse EXCEPT !.kind = "ValidationError"]]
       ELSE sq' = [sq EXCEPT !.pc = "check",
                             !.request =
                                [plan_variation_id |-> sq.kwargs.plan_variation_id,
                                 source_id |-> sq.kwargs.source_id,
                                 location_id |-> sq.kwargs.location_id,
                                 idempotency_key |-> Absent]]
    /\ UNCHANGED leadVars

\* the location of the request or of the environment
LocationId(s) ==
    IF s.request.location_id # Absent THEN s.request.location_id ELSE s.env

\* create_square_subscription up to the professional's row: the location,
\* the authentication, the role and the professional are checked in turn
CheckCaller ==
    /\ sq.pc = "check"
    /\ IF LocationId(sq) = Absent
       THEN sq' = [sq EXCEPT !.pc = "done", !.response = Raised(400,
                "location_id is required. Provide it in the request or set SQUARE_LOCATION_ID in .env")]
       ELSE IF sq.payload = NoPayload
       THEN sq' = [sq EXCEPT !.pc = "done", !.response = Raised(401,
                "Authentication required. Please login as a professional to create a subscription.")]
       ELSE IF sq.payload.role # "professionals"
       THEN sq' = [sq EXCEPT !.pc = "done", !.response = Raised(403,
                "Only professionals can create subscriptions.")]
       ELSE IF sq.payload.sub \notin ProfessionalEmails
       THEN sq' = [sq EXCEPT !.pc = "done", !.response = Raised(404,
                "Professional not found. Please ensure you are registered as a professional.")]
       ELSE sq' = [sq EXCEPT !.pc = "customer"]
    /\ UNCHANGED leadVars

\* the Square customer of the professional's email is looked up, and created
\* when there is none
FindSquareCustomer ==
    /\ sq.pc = "customer"
    /\ \E found \in BOOLEAN, created \in BOOLEAN :
          IF found \/ created
          THEN sq' = [sq EXCEPT !.pc = "subscribe", !.square_customer_id = "sq_cust_pro"]
          ELSE sq' = [sq EXCEPT !.pc = "done", !.response = Raised(500,
                   "Failed to create Square customer: error")]
    /\ UNCHANGED leadVars

\* the HTTPException raised for a result of create_subscription that is no
\* success
SubscriptionFailure(http_status) ==
    IF http_status = 400 THEN Raised(400, "Invalid request: error")
    ELSE IF http_status = 401
    THEN Raised(401, "Authentication failed. Check your SQUARE_ACCESS_TOKEN.")
    ELSE IF http_status = 403
    THEN Raised(403, "Permission denied. Your token needs 'subscriptions:write' permission.")
    ELSE IF http_status = 404
    THEN Raised(404, "Resource not found: error. Check if customer_id, location_id, or plan_variation_id are correct.")
    ELSE Raised(http_status, "Failed to create subscription: error")

\* create_subscription is called with the Square customer of the
\* professional, the source_id of the request and card_id=None
CallCreateSubscription ==
    /\ sq.pc = "subscribe"
    /\ \E result \in SquareResults :
          sq' = [sq EXCEPT
                   !.calls = Append(sq.calls,
                                [customer_id |-> sq.square_customer_id,
                                 location_id |-> LocationId(sq),
                                 plan_variation_id |-> sq.request.plan_variation_id,
                                 source_id |-> sq.request.source_id,
                                 card_id |-> Absent,
                                 idempotency_key |-> sq.request.idempotency_key]),
                   !.pc = IF result.success THEN "link" ELSE "done",
                   !.response = IF result.success THEN sq.response
                                ELSE SubscriptionFailure(result.http_status)]
    /\ UNCHANGED leadVars

\* the subscription is linked to the professional, committed, and returned
LinkAndReturn ==
    /\ sq.pc = "link"
    /\ sq' = [sq EXCEPT !.pc = "done",
                        !.subscription_active = TRUE,
                        !.response = [kind |-> "return", status |-> 200,
                                      detail |-> "Subscription created successfully. You will be charged automatically on each billing cycle.",
                                      customer_id |-> sq.square_customer_id]]
    /\ UNCHANGED leadVars

\* a call of create_square_subscription with any keywords, token and
\* environment; the lead assignment is at rest
InitSubscription ==
    /\ backend = "postgres"
    /\ pairs = InitialPairs
    /\ leads = <<>>
    /\ nextLeadId = 1
    /\ locks = {}
    /\ pc = [r \in Reqs |-> "idle"]
    /\ data = [r \in Reqs |-> NoData]
    /\ loc = [r \in Reqs |-> NoLoc]
    /\ resp = [r \in Reqs |-> NoResp]
    /\ commits = <<>>
    /\ aborted = NoAbort
    /\ nextPairId = NextId(pairs)
    /\ received = [r \in Reqs |-> NoBody]
    /\ mail = {}
    /\ \E k \in SubscriptionKwargs, p \in Payloads, e \in EnvLocations :
          sq = [pc |-> "construct", kwargs |-> k, payload |-> p, env |-> e,
                request |-> NoRequest, square_customer_id |-> Absent,
                calls |-> <<>>, subscription_active |-> FALSE,
                response |-> NoResponse]

NextSubscription ==
    \/ ConstructRequest
    \/ CheckCaller
    \/ FindSquareCustomer
    \/ CallCreateSubscription
    \/ LinkAndReturn

SubscriptionSpec == InitSubscription /\ [][NextSubscription]_vars

\* ------------------------------------------- administrator's pair registry
\* ServiceCityPair ids the administrator names when creating or moving a pair
PairScps == {7, 8}

\* create (professional_pair.py:25-59) with a service_city_pair_id that
\* exists: a row with the next id of the sequence is committed.  Nothing
\* limits the rows of one ServiceCityPair.  (Without the key the call is
\* rejected with 400, with an unknown one with 404; neither writes.)
CreatePair(scp_id) ==
    /\ nextPairId < NextId(InitialPairs) + MaxNewPairs
    /\ scp_id \in ScpIds
    /\ pairs' = pairs \cup {[id |-> nextPairId, service_city_pair_id |-> scp_id]}
    /\ nextPairId' = nextPairId + 1
    /\ UNCHANGED <<backend, leads, nextLeadId, locks, pc, data, loc, resp,
                   commits, aborted, sq, received, mail>>

\* update (professional_pair.py:61-84) of a row that exists, to a
\* service_city_pair_id that exists: the row is moved and the move committed
UpdatePair(id, scp_id) ==
    /\ scp_id \in ScpIds
    /\ \E p \in pairs :
          /\ p.id = id
          /\ p.service_city_pair_id # scp_id
          /\ pairs' = (pairs \ {p}) \cup {[p EXCEPT !.service_city_pair_id = scp_id]}
    /\ UNCHANGED <<backend, leads, nextLeadId, locks, pc, data, loc, resp,
                   commits, aborted, sq, nextPairId, received, mail>>

\* delete (professional_pair.py:86-93) of a row that exists: the row is
\* removed and the removal committed, unless a lead refers to the row and the
\* database enforces the reference (the commit raises and nothing is removed)
DeletePair(id) ==
    /\ \E p \in pairs :
          /\ p.id = id
          /\ pairs' = pairs \ {p}
    /\ \A i \in 1..Len(leads) :
          leads[i].pair_id = id => ~ForeignKeyHolds(backend, pairs', id)
    /\ UNCHANGED <<backend, leads, nextLeadId, locks, pc, data, loc, resp,
                   commits, aborted, sq, nextPairId, received, mail>>

\* ids the sequence hands out within the bound
NewPairIds == NextId(InitialPairs)..(NextId(InitialPairs) + MaxNewPairs - 1)

\* the rows the administrator moves, and the rows the administrator deletes
MovedPairIds == {101}
DeletedPairIds == {100, 101} \cup NewPairIds

NextRegistry ==
    \/ \E r \in Reqs : BeginAlone(r) \/ Progress(r)
    \/ \E s \in PairScps : CreatePair(s)
    \/ \E id \in MovedPairIds, s \in PairScps : UpdatePair(id, s)
    \/ \E id \in DeletedPairIds : DeletePair(id)

\* create_lead calls on PostgreSQL, one after the other, with the
\* administrator creating, moving and deleting pairs at any moment
RegistrySpec == InitPostgres /\ [][NextRegistry]_vars

NextCreateDelete ==
    \/ \E r \in Reqs : BeginAlone(r) \/ Progress(r)
    \/ \E s \in PairScps : CreatePair(s)
    \/ \E id \in DeletedPairIds : DeletePair(id)

\* create_lead calls on PostgreSQL, one after the other, with the
\* administrator creating and deleting pairs at any moment of a call
CreateDeleteSpec == InitPostgres /\ [][NextCreateDelete]_vars

\* ------------------------------------------------ what the client sends
\* tokens of two customers and of nobody; bodies with a key missing, with a
\* service, city or state that does not exist, with a city of no state, for
\* ServiceCityPairs with two pairs, one pair, no pair, and for none; a
\* pair_id and a customer_id of the client's choosing
ClientBodies ==
    { Body(sub, t[1], t[2], st, p, c) :
        sub \in {"jane@protown.com", "omar@protown.com", "ghost@protown.com"},
        t \in {<<Null, 1>>, <<1, Null>>, <<9, 1>>, <<1, 9>>, <<1, 3>>,
               <<1, 1>>, <<2, 1>>, <<2, 2>>, <<3, 1>>},
        st \in {Null, 9}, p \in {Null, 104}, c \in {Null, 2} }

\* mutant: a customer_id in the body is kept
HandlerDataTrustsBody(b) ==
    [customer_id |-> IF b.customer_id # Null THEN b.customer_id ELSE Me(b.sub),
     service_id |-> b.service_id, city_id |-> b.city_id,
     state_id |-> ResolvedState(b)]

\* the data dict once the checks have passed: customer_id forced from the
\* token's customer, state_id set, the client's pair_id popped
HandlerData(b) ==
    [customer_id |-> Me(b.sub), service_id |-> b.service_id,
     city_id |-> b.city_id, state_id |-> ResolvedState(b)]

\* create_lead is entered, by a call that overlaps no other, with what the
\* client sent kept beside the handler's data until the next call
BeginReceived(r) ==
    /\ \A q \in Reqs : pc[q] = "idle"
    /\ Len(leads) < MaxLeads
    /\ \E b \in ClientBodies :
         /\ received' = [q \in Reqs |-> IF q = r THEN b ELSE NoBody]
         /\ IF Validate(b) = NoResp
            THEN /\ pc' = [pc EXCEPT ![r] = "resolve"]
                 /\ data' = [data EXCEPT ![r] = HandlerData(b)]
                 /\ resp' = resp
            ELSE /\ pc' = [pc EXCEPT ![r] = "closing"]
                 /\ resp' = [resp EXCEPT ![r] = Validate(b)]
                 /\ data' = data
    /\ UNCHANGED <<backend, pairs, leads, nextLeadId, locks, loc, commits, aborted,
                   sq, nextPairId, mail>>

NextReceived ==
    \E r \in Reqs :
        \/ BeginReceived(r)
        \/ ResolveScp(r)
        \/ FetchPairs(r)
        \/ AcquireLock(r)
        \/ LockUnavailable(r)
        \/ CountLeads(r)
        \/ CommitLead(r)
        \/ CommitRaises(r)
        \/ Respond(r)
        \/ CloseSession(r)

\* create_lead calls, one after the other, with every kind of token and body
ReceivedSpec == Init /\ [][NextReceived]_vars

\* ------------------------------------------------------ notification emails
\* what the call of the Brevo API does: answers 201, answers another status,
\* fails on the network, or fails otherwise
BrevoOutcomes == {"201", "400", "RequestException", "Exception"}

\* send_email (utils/email.py:15-80) returns its success flag and never
\* raises: every exception is caught and logged
SendEmail(outcome) == outcome = "201"

\* the recipients in the order create_lead writes to them, and the position
\* of the handler after each
Recipients == <<"customer", "professional_1", "professional_2">>
MailPc == [customer |-> "mail_customer", professional_1 |-> "mail_professional_1",
           professional_2 |-> "mail_professional_2"]
AfterMail == [customer |-> "mail_professional_1",
              professional_1 |-> "mail_professional_2",
              professional_2 |-> "return"]

\* db.refresh(lead) and the enrichment queries (lead.py:369-409), in the
\* transaction the session opens after the commit; calls do not overlap, so
\* the lead of the call is the newest row
Refresh(r) ==
    /\ pc[r] = "respond"
    /\ leads # <<>>
    /\ pc' = [pc EXCEPT ![r] = "mail_customer"]
    /\ mail' = {}
    /\ UNCHANGED <<backend, pairs, leads, nextLeadId, locks, data, loc, resp,
                   commits, aborted, sq, nextPairId, received>>

\* mutant: a send that fails raises out of the handler
NotifyRaises(r, to) ==
    /\ pc[r] = MailPc[to]
    /\ \E o \in BrevoOutcomes :
          /\ mail' = mail \cup {[lead |-> leads[Len(leads)].id, to |-> to,
                                  sent |-> SendEmail(o)]}
          /\ IF SendEmail(o)
             THEN pc' = [pc EXCEPT ![r] = AfterMail[to]] /\ resp' = resp
             ELSE /\ pc' = [pc EXCEPT ![r] = "closing"]
                  /\ resp' = [resp EXCEPT ![r] =
                                HTTPException(500, "Internal Server Error")]
    /\ UNCHANGED <<backend, pairs, leads, nextLeadId, locks, data, loc,
                   commits, aborted, sq, nextPairId, received>>

\* send_email to the customer, then to each professional of the pair
\* (lead.py:413-441): the result of the send is dropped
Notify(r, to) ==
    /\ pc[r] = MailPc[to]
    /\ \E o \in BrevoOutcomes :
          mail' = mail \cup {[lead |-> leads[Len(leads)].id, to |-> to,
                              sent |-> SendEmail(o)]}
    /\ pc' = [pc EXCEPT ![r] = AfterMail[to]]
    /\ UNCHANGED <<backend, pairs, leads, nextLeadId, locks, data, loc, resp,
                   commits, aborted, sq, nextPairId, received>>

\* the 201 response (lead.py:443-455)
Return(r) ==
    /\ pc[r] = "return"
    /\ pc' = [pc EXCEPT ![r] = "closing"]
    /\ resp' = [resp EXCEPT ![r] = [code |-> 201, detail |-> ""]]
    /\ UNCHANGED <<backend, pairs, leads, nextLeadId, locks, data, loc,
                   commits, aborted, sq, nextPairId, received, mail>>

NextMail ==
    \E r \in Reqs :
        \/ BeginAlone(r)
        \/ ResolveScp(r)
        \/ FetchPairs(r)
        \/ AcquireLock(r)
        \/ LockUnavailable(r)
        \/ CountLeads(r)
        \/ CommitLead(r)
        \/ CommitRaises(r)
        \/ Refresh(r)
        \/ \E i \in 1..Len(Recipients) : Notify(r, Recipients[i])
        \/ Return(r)
        \/ CloseSession(r)

\* create_lead calls, one after the other, with the steps between the commit
\* and the response taken one at a time
MailSpec == Init /\ [][NextMail]_vars

\* ------------------------------------------------------------- vocabulary
\* the ServiceCityPairs with exactly two ProfessionalPair rows
TwoPairScps == {s \in ScpIds : Len(QueryPairs(pairs, s)) = 2}
SlotA(s) == QueryPairs(pairs, s)[1]
SlotB(s) == QueryPairs(pairs, s)[2]

\* the leads of the two pairs of s, in commit order
LeadsOf(s) == SelectSeq(leads, LAMBDA l : l.pair_id \in {SlotA(s), SlotB(s)})
\* the committed create_lead calls for s, in commit order
CommitsOf(s) == SelectSeq(commits, LAMBDA c : c.scp_id = s)
\* how many leads reference pair p
CountOf(p) == Cardinality({i \in 1..Len(leads) : leads[i].pair_id = p})

\* ------------------------------------------------------------------ claims
\* C1: with two pairs P1 < P2 and no leads at the start, create_lead calls
\* that do not overlap assign P1, P2, P1, P2, ... in that order, whatever
\* their number (checked under SeqSpec, with and without the lock).
C1_SequentialAlternation ==
    \A s \in TwoPairScps :
        \A i \in 1..Len(LeadsOf(s)) :
            LeadsOf(s)[i].pair_id = IF i % 2 = 1 THEN SlotA(s) ELSE SlotB(s)

\* three sequential calls for ServiceCityPair 7 gave 100, 101, 100
C1_Witness ==
    /\ Len(LeadsOf(7)) = 3
    /\ [i \in 1..3 |-> LeadsOf(7)[i].pair_id] = <<100, 101, 100>>

\* C2: where the advisory lock exists, no two calls in flight for the same
\* ServiceCityPair hold the same observed count, the k-th committed call for
\* a ServiceCityPair observed k-1 leads, and the pairs alternate A, B, A, B
\* in commit order.
C2_ConcurrentAlternation ==
    backend = "postgres" =>
        /\ \A r1, r2 \in Reqs :
              (/\ r1 # r2
               /\ pc[r1] = "insert" /\ pc[r2] = "insert"
               /\ loc[r1].scp_id = loc[r2].scp_id)
              => loc[r1].total_assigned # loc[r2].total_assigned
        /\ \A s \in TwoPairScps :
              \A k \in 1..Len(CommitsOf(s)) :
                  /\ CommitsOf(s)[k].seen = k - 1
                  /\ CommitsOf(s)[k].pair_id =
                        IF k % 2 = 1 THEN SlotA(s) ELSE SlotB(s)

\* a call waits for the lock of the ServiceCityPair another call, which has
\* counted and not yet committed, holds; one lead is already committed
C2_Witness ==
    /\ backend = "postgres"
    /\ Len(commits) >= 1
    /\ \E r1, r2 \in Reqs :
          /\ pc[r1] = "insert" /\ pc[r2] = "lock"
          /\ loc[r1].scp_id = loc[r2].scp_id
          /\ <<LockKey(loc[r1].scp_id), r1>> \in locks

\* C3: where the advisory lock exists, the leads of a two-pair
\* ServiceCityPair are split evenly at every moment: count(P1) - count(P2) is
\* 0 when their total is even and 1 when it is odd.
C3_EvenSplit ==
    backend = "postgres" =>
        \A s \in TwoPairScps :
            CountOf(SlotA(s)) - CountOf(SlotB(s))
                = (CountOf(SlotA(s)) + CountOf(SlotB(s))) % 2

\* three leads for ServiceCityPair 7, two of them committed by calls that
\* were in their handlers at the same time
C3_Witness ==
    /\ backend = "postgres"
    /\ CountOf(100) = 2 /\ CountOf(101) = 1
    /\ \A r \in Reqs : pc[r] = "respond"

\* the keys request r holds
C4_HeldBy(r) == {l[1] : l \in {m \in locks : m[2] = r}}

\* C4: the lock is keyed by the ServiceCityPair.  While a transaction holds
\* the lock of ServiceCityPair X, the lock statement of another call for X
\* does not return; it returns at once for a call whose ServiceCityPair no
\* other transaction has locked; and a lock leaves the lock table only when
\* its transaction ends (commit, rollback, or the close of the session).
C4_KeyedLock ==
    /\ [](\A r \in Reqs :
            (pc[r] = "lock" /\ backend = "postgres") =>
               IF \E q \in Reqs \ {r} : loc[r].scp_id \in C4_HeldBy(q)
               THEN ~ENABLED AcquireLock(r)
               ELSE ENABLED AcquireLock(r))
    /\ [](\A r1, r2 \in Reqs :
            (r1 # r2 /\ pc[r1] \in {"count", "insert"} /\ pc[r2] \in {"count", "insert"}
                /\ backend = "postgres")
            => loc[r1].scp_id # loc[r2].scp_id)
    /\ [][\A l \in locks \ locks' :
            \/ pc[l[2]] = "insert" /\ pc'[l[2]] \in {"respond", "closing"}
            \/ pc[l[2]] = "closing" /\ pc'[l[2]] = "idle"]_vars

\* one call holds the lock of its ServiceCityPair while another call is at
\* the lock statement for a different ServiceCityPair
C4_Witness ==
    /\ backend = "postgres"
    /\ \E r1, r2 \in Reqs :
          /\ pc[r1] = "insert" /\ pc[r2] = "lock"
          /\ loc[r1].scp_id # loc[r2].scp_id
          /\ loc[r1].scp_id \in C4_HeldBy(r1)

\* C5: committing a lead for one (service, city) leaves the result of
\* choose_pair_for_service_city unchanged for every other (service, city).
C5_IsolationAcrossScps ==
    [][\A t \in Targets :
          (/\ Len(leads') = Len(leads) + 1
           /\ <<leads'[Len(leads')].service_id, leads'[Len(leads')].city_id>> # t)
          => ChoosePair(leads', pairs', t[1], t[2]) = ChoosePair(leads, pairs, t[1], t[2])]_vars

\* two leads are committed for ServiceCityPair 7 and one for 8: the next
\* pair for 8 is its slot B, the next for 7 its slot A
C5_Witness ==
    /\ Len(LeadsOf(7)) = 2 /\ Len(LeadsOf(8)) = 1
    /\ ChoosePair(leads, pairs, 1, 2).pair_id = 103
    /\ ChoosePair(leads, pairs, 1, 1).pair_id = 100

\* request r holds an advisory lock
C6_Holds(r) == \E l \in locks : l[2] = r

\* C6: a transaction that holds an advisory lock gives it up: on commit, and
\* when the handler is left by an exception and the session is closed.  No
\* handler is back at rest with a lock, and (under FairSpec) every lock that
\* is held is eventually released.
C6_LockReleased ==
    /\ [](\A r \in Reqs : pc[r] \in {"idle", "respond"} => ~C6_Holds(r))
    /\ \A r \in Reqs : C6_Holds(r) ~> ~C6_Holds(r)

\* the commit has raised after the lock was taken: the handler still holds
\* the lock and another call waits for it
C6_Witness ==
    \E r1, r2 \in Reqs :
        /\ pc[r1] = "closing" /\ resp[r1].code = 500 /\ C6_Holds(r1)
        /\ pc[r2] = "lock" /\ ~ENABLED AcquireLock(r2)

\* C7: an attempt that is aborted after its pair was chosen leaves nothing
\* behind: a call that counts while no lead of that ServiceCityPair has been
\* committed since the aborted attempt counted is given the same pair.
C7_AbortedChoiceRepeats ==
    [][\A r \in Reqs :
          (/\ pc[r] = "count" /\ pc'[r] = "insert"
           /\ aborted.scp_id = loc[r].scp_id)
          => loc'[r].assigned_pair_id = aborted.pair_id]_vars

\* after one committed lead an attempt chose slot B and was aborted; the
\* next call has counted and holds slot B again
C7_Witness ==
    \E r \in Reqs :
        /\ pc[r] = "insert"
        /\ aborted.scp_id = loc[r].scp_id
        /\ Len(LeadsOf(loc[r].scp_id)) = 1
        /\ loc[r].assigned_pair_id = SlotB(loc[r].scp_id)
        /\ aborted.pair_id = SlotB(loc[r].scp_id)

\* C8: for a (service_id, city_id) with no ServiceCityPair row the engine
\* raises 400 "No service_city_pair for given service/city"; the call writes
\* nothing and takes no lock, the handler then only closes its session, and
\* no lead of the ledger is for a (service, city) without a ServiceCityPair
\* or has a null pair_id.
C8_MissingPairingRejected ==
    /\ [][\A r \in Reqs :
            /\ (/\ pc[r] = "resolve" /\ pc'[r] # "resolve"
                /\ QueryScp(data[r].service_id, data[r].city_id) = Null)
               => /\ pc'[r] = "closing"
                  /\ resp'[r] = HTTPException(400,
                        "No service_city_pair for given service/city")
                  /\ leads' = leads /\ locks' = locks /\ nextLeadId' = nextLeadId
            /\ (pc[r] = "closing" /\ pc'[r] # "closing")
               => pc'[r] = "idle" /\ leads' = leads]_vars
    /\ [](\A i \in 1..Len(leads) :
            /\ QueryScp(leads[i].service_id, leads[i].city_id) # Null
            /\ leads[i].pair_id # Null)

\* a call for (3, 1), which has no ServiceCityPair, has been rejected, after
\* a lead was committed for another (service, city)
C8_Witness ==
    /\ Len(leads) >= 1
    /\ \E r \in Reqs :
          /\ pc[r] = "closing"
          /\ data[r].service_id = 3 /\ data[r].city_id = 1
          /\ resp[r] = HTTPException(400, "No service_city_pair for given service/city")

\* C9: for a ServiceCityPair with zero or one ProfessionalPair rows the
\* engine raises 400 "Admin must configure two pairs for this service/city";
\* the call writes nothing and takes no lock, and every lead of the ledger
\* has one of at least two pairs of its own ServiceCityPair.
C9_InsufficientPairsRejected ==
    /\ [][\A r \in Reqs :
            (/\ pc[r] = "fetch" /\ pc'[r] # "fetch"
             /\ Cardinality({p \in pairs : p.service_city_pair_id = loc[r].scp_id}) < 2)
            => /\ pc'[r] = "closing"
               /\ resp'[r] = HTTPException(400,
                     "Admin must configure two pairs for this service/city")
               /\ leads' = leads /\ locks' = locks /\ nextLeadId' = nextLeadId]_vars
    /\ [](\A i \in 1..Len(leads) :
            LET mine == {p \in pairs : p.service_city_pair_id =
                            QueryScp(leads[i].service_id, leads[i].city_id)}
            IN  /\ Cardinality(mine) >= 2
                /\ leads[i].pair_id \in {p.id : p \in mine})

\* a call for ServiceCityPair 9 (one pair) and a call for ServiceCityPair 10
\* (no pair) have both been rejected
C9_Witness ==
    \E r1, r2 \in Reqs :
        /\ pc[r1] = "closing" /\ loc[r1].scp_id = 9
        /\ pc[r2] = "closing" /\ loc[r2].scp_id = 10
        /\ resp[r1] = HTTPException(400,
              "Admin must configure two pairs for this service/city")
        /\ resp[r2] = resp[r1]

\* C10: whatever the ledger holds, the engine returns pair A exactly when
\* the number of leads of pair A plus the number of leads of pair B is even
\* and pair B exactly when it is odd (checked under LedgerSpec).
C10_ParityOfCombinedCount ==
    [][\A r \in Reqs :
          (pc[r] = "count" /\ pc'[r] = "insert") =>
             LET n == CountOf(loc[r].pair_a) + CountOf(loc[r].pair_b)
             IN  /\ loc[r].pair_a < loc[r].pair_b
                 /\ (n % 2 = 0) <=> (loc'[r].assigned_pair_id = loc[r].pair_a)
                 /\ (n % 2 = 1) <=> (loc'[r].assigned_pair_id = loc[r].pair_b)]_vars

\* the ledger holds leads of other pairs and one lead of pair B alone: the
\* call for ServiceCityPair 7 has counted 1 and chosen pair B
C10_Witness ==
    \E r \in Reqs :
        /\ pc[r] = "insert" /\ loc[r].scp_id = 7
        /\ CountOf(100) = 0 /\ CountOf(101) = 1 /\ Len(leads) = 2
        /\ loc[r].total_assigned = 1
        /\ loc[r].assigned_pair_id = 101

\* C11: every Lead row that create_lead creates has a pair_id that is not
\* null and is the id of a ProfessionalPair row bound to the ServiceCityPair
\* of the row's own (service_id, city_id), whatever pair_id the client sent.
C11_CreatedLeadHasOwnPair ==
    [][nextLeadId' = nextLeadId + 1 =>
          LET row  == leads'[Len(leads')]
              mine == {p \in pairs' : p.service_city_pair_id =
                                         QueryScp(row.service_id, row.city_id)}
          IN  /\ Len(leads') = Len(leads) + 1
              /\ row.id = nextLeadId
              /\ row.pair_id # Null
              /\ row.pair_id \in {p.id : p \in mine}]_vars

\* leads were created for (1, 1) and for (1, 2): the first carries pair 100
\* of ServiceCityPair 7, the other pair 102 of ServiceCityPair 8
C11_Witness ==
    \E i, j \in 1..Len(leads) :
        /\ leads[i].service_id = 1 /\ leads[i].city_id = 1 /\ leads[i].pair_id = 100
        /\ leads[j].service_id = 1 /\ leads[j].city_id = 2 /\ leads[j].pair_id = 102

\* C12: a Lead is never reassigned: in every reachable state, whatever the
\* operations that ran (the administrator's update included), the pair_id of
\* each lead of the ledger is the pair_id it was created with.
C12_PairFixedAtCreation ==
    \A i \in 1..Len(leads) : leads[i].pair_id = commits[leads[i].id].pair_id

\* C13: where the locking primitive is unavailable the lock statement
\* raises and the engine does not fail: the step from the lock statement
\* goes on to the count with no lock taken and no error response, the count
\* can run, and the pair it returns is decided by the parity of the number
\* of leads of pair A or B.
C13_LockUnavailableDegrades ==
    /\ [][\A r \in Reqs :
            (backend = "other" /\ pc[r] = "lock" /\ pc'[r] # "lock")
            => /\ pc'[r] = "count" /\ loc'[r].raised = "lock"
               /\ locks' = locks /\ resp'[r] = NoResp]_vars
    /\ [](\A r \in Reqs :
            (backend = "other" /\ pc[r] = "count" /\ loc[r].raised = "lock")
            => ENABLED CountLeads(r))
    /\ [][\A r \in Reqs :
            (loc[r].raised = "lock" /\ pc[r] = "count" /\ pc'[r] = "insert")
            => LET odd == (CountOf(loc[r].pair_a) + CountOf(loc[r].pair_b)) % 2 = 1
               IN  loc'[r].assigned_pair_id =
                      IF odd THEN loc[r].pair_b ELSE loc[r].pair_a]_vars

\* without the primitive, the lock statement of a call has raised, one lead
\* of its pairs is committed and the engine has returned slot B
C13_Witness ==
    /\ backend = "other"
    /\ \E r \in Reqs :
          /\ pc[r] = "insert" /\ loc[r].raised = "lock"
          /\ loc[r].total_assigned = 1
          /\ loc[r].assigned_pair_id = loc[r].pair_b

\* C14 as stated: every error that arises in the engine (resolving, fetching,
\* taking the lock, counting) is surfaced to the caller: the engine never
\* returns a pair in a call in which one of its statements raised, and the
\* call that ends after such an error ends with the failure.
C14_EveryErrorSurfaced ==
    \A r \in Reqs :
        loc[r].raised # "" =>
            /\ pc[r] # "insert"
            /\ pc[r] = "closing" => resp[r].code = 500

\* C14, amended: an error in resolving, fetching or counting is surfaced as
\* the failure of the call and no pair is returned.  An error of the lock
\* statement alone is swallowed: where the primitive is missing the engine
\* goes on and may return a pair; on PostgreSQL the failed statement has
\* aborted the transaction, the count cannot run and the call fails.
C14_ErrorsButLockSurfaced ==
    /\ [](\A r \in Reqs :
            loc[r].raised \in {"resolve", "fetch", "count"}
            => (pc[r] = "closing" /\ resp[r].code = 500))
    /\ [](\A r \in Reqs :
            (loc[r].raised = "lock" /\ backend = "postgres")
            => /\ pc[r] \in {"count", "closing"}
               /\ pc[r] = "count" => ~ENABLED CountLeads(r)
               /\ pc[r] = "closing" => resp[r].code = 500)
    /\ [](\A r \in Reqs :
            (pc[r] = "insert" /\ loc[r].raised # "")
            => (loc[r].raised = "lock" /\ backend = "other"))
    /\ [][\A r \in Reqs :
            loc'[r].raised \notin {loc[r].raised, "", "lock"}
            => (leads' = leads /\ nextLeadId' = nextLeadId)]_vars

\* a count has raised and its call has failed with 500, while another call,
\* whose lock statement raised on a backend without the primitive, has been
\* given a pair
C14_Witness ==
    \E r1, r2 \in Reqs :
        /\ loc[r1].raised = "count" /\ pc[r1] = "closing" /\ resp[r1].code = 500
        /\ loc[r2].raised = "lock" /\ pc[r2] = "insert" /\ backend = "other"

\* C15: create_square_subscription called without an authenticated user
\* (payload None) and with a customer_id, a location_id and a card_id or a
\* source_id succeeds, returns that customer_id, and calls
\* create_subscription exactly once, with the customer_id, location_id,
\* plan_variation_id, source_id and card_id of the request.
C15_DirectCustomerSubscribes ==
    (/\ sq.pc = "done"
     /\ sq.payload = NoPayload
     /\ sq.kwargs.customer_id # Absent /\ sq.kwargs.location_id # Absent
     /\ (sq.kwargs.card_id # Absent \/ sq.kwargs.source_id # Absent))
    => /\ sq.response.kind = "return"
       /\ sq.response.customer_id = sq.kwargs.customer_id
       /\ sq.calls = << [customer_id |-> sq.kwargs.customer_id,
                         location_id |-> sq.kwargs.location_id,
                         plan_variation_id |-> sq.kwargs.plan_variation_id,
                         source_id |-> sq.kwargs.source_id,
                         card_id |-> sq.kwargs.card_id,
                         idempotency_key |-> Absent] >>

\* C16: create_square_subscription with neither a source_id nor a card_id
\* is rejected with HTTP 400 'Either source_id (new card) or card_id (saved
\* card) must be provided' and never calls create_subscription.
C16_MissingPaymentMethodRejected ==
    (/\ sq.pc = "done"
     /\ sq.kwargs.source_id = Absent /\ sq.kwargs.card_id = Absent)
    => /\ sq.response = Raised(400,
             "Either source_id (new card) or card_id (saved card) must be provided")
       /\ sq.calls = <<>>

\* the ids of the rows of ServiceCityPair s below which s has fewer than two
\* rows: its two rows of lowest id
C17_TwoLowest(s) ==
    {q.id : q \in {p \in pairs :
        /\ p.service_city_pair_id = s
        /\ Cardinality({o \in pairs : o.service_city_pair_id = s /\ o.id < p.id}) < 2}}

\* C17: when a ServiceCityPair has more than two ProfessionalPair rows the
\* engine returns one of its two rows of lowest id, and the count that
\* decides the parity is the number of leads of those two rows: leads of
\* any other row of the ServiceCityPair do not enter it.
C17_OnlyTwoLowestPairs ==
    [][\A r \in Reqs :
          (pc[r] = "count" /\ pc'[r] = "insert") =>
             LET two == C17_TwoLowest(loc[r].scp_id)
                 n   == Cardinality({i \in 1..Len(leads) : leads[i].pair_id \in two})
                 lo  == CHOOSE p \in two : \A q \in two : p <= q
                 hi  == CHOOSE p \in two : \A q \in two : q <= p
             IN  /\ Cardinality(two) = 2
                 /\ loc'[r].total_assigned = n
                 /\ loc'[r].assigned_pair_id = IF n % 2 = 0 THEN lo ELSE hi]_vars

\* ServiceCityPair 7 has rows 100, 101 and 105; the ledger holds one lead of
\* 100 and one of 105, and the call for 7 has counted one lead and been
\* given 101
C17_Witness ==
    /\ Cardinality({p \in pairs : p.service_city_pair_id = 7}) = 3
    /\ CountOf(100) = 1 /\ CountOf(105) = 1
    /\ \E r \in Reqs :
          /\ pc[r] = "insert" /\ loc[r].scp_id = 7
          /\ loc[r].total_assigned = 1
          /\ loc[r].assigned_pair_id = 101

\* C18: the steps of one create_lead call come in the order lock, count,
\* insert with the chosen pair_id, commit.  The count is reached from the
\* lock statement only and writes nothing, the row appears in the step that
\* commits and carries the pair the count chose, and on PostgreSQL the
\* transaction holds the lock of its ServiceCityPair all the way from the
\* count to that commit, which is the step that gives it up.
C18_LockCountInsertCommit ==
    /\ [][\A r \in Reqs :
            /\ (pc'[r] = "count" /\ pc[r] # "count") => pc[r] = "lock"
            /\ (pc'[r] = "insert" /\ pc[r] # "insert")
               => (pc[r] = "count" /\ leads' = leads /\ locks' = locks)
            /\ (pc'[r] = "respond" /\ pc[r] # "respond")
               => /\ pc[r] = "insert"
                  /\ Len(leads') = Len(leads) + 1
                  /\ SubSeq(leads', 1, Len(leads)) = leads
                  /\ leads'[Len(leads')].pair_id = loc[r].assigned_pair_id
                  /\ \A l \in locks' : l[2] # r
            /\ leads' # leads => \E q \in Reqs : pc[q] = "insert" /\ pc'[q] = "respond"]_vars
    /\ [](\A r \in Reqs :
            (backend = "postgres" /\ pc[r] \in {"count", "insert"})
            => <<LockKey(loc[r].scp_id), r>> \in locks)

\* on PostgreSQL a call has committed its lead and given up the lock, and
\* the next call for the same ServiceCityPair holds the lock, has counted
\* that lead and is about to insert
C18_Witness ==
    /\ backend = "postgres"
    /\ \E r1, r2 \in Reqs :
          /\ pc[r1] = "respond" /\ pc[r2] = "insert"
          /\ Len(leads) = 1
          /\ leads[1].pair_id = SlotA(loc[r2].scp_id)
          /\ loc[r2].total_assigned = 1
          /\ locks = {<<LockKey(loc[r2].scp_id), r2>>}

\* C19: contention is not an error.  Under fair scheduling every call comes
\* to its end, and a call leaves the lock statement in one way only, with
\* the lock: so a call blocked there gets the lock.  Its count is then the
\* number of leads committed for its ServiceCityPair up to then, the lead of
\* the holder it waited for included.  A transaction holds at most one
\* advisory lock, so whenever calls are in their handlers one of them can
\* take a step.
C19_BlockedCallProceeds ==
    /\ \A r \in Reqs : (pc[r] # "idle") ~> (pc[r] = "idle")
    /\ [][\A r \in Reqs :
            (pc[r] = "lock" /\ pc'[r] # "lock")
            => (pc'[r] = "count" /\ <<LockKey(loc[r].scp_id), r>> \in locks')]_vars
    /\ [](\A r \in Reqs : Cardinality({l \in locks : l[2] = r}) <= 1)
    /\ []((\E r \in Reqs : pc[r] # "idle") => (\E r \in Reqs : ENABLED Progress(r)))
    /\ [][\A r \in Reqs :
            (pc[r] = "count" /\ pc'[r] = "insert")
            => loc'[r].total_assigned = Len(CommitsOf(loc[r].scp_id))]_vars

\* a call that waited at the lock statement while the holder committed a
\* lead has taken the lock and counted that lead
C19_Witness ==
    \E r1, r2 \in Reqs :
        /\ pc[r1] = "closing" /\ resp[r1].code = 201
        /\ pc[r2] = "insert" /\ loc[r2].total_assigned = 1
        /\ Len(leads) = 1
        /\ loc[r2].scp_id = QueryScp(leads[1].service_id, leads[1].city_id)

\* C20: create_lead validates the service, the city, and that the city
\* belongs to the claimed state: every lead it creates has an existing
\* service and city and a state_id for which the StateCityPair
\* (state_id, city_id) exists, whether the client supplied the state_id or
\* it was taken from the city.
C20_CityBelongsToState ==
    \A i \in 1..Len(leads) :
        /\ leads[i].service_id \in Services
        /\ leads[i].city_id \in Cities
        /\ [state_id |-> leads[i].state_id, city_id |-> leads[i].city_id]
              \in StateCityPairs

\* C21: a ServiceCityPair that has ever received a lead has at least two
\* ProfessionalPair rows in every later state, whatever pairs the
\* administrator creates, updates or deletes.
C21_UsedScpKeepsTwoPairs ==
    \A i \in 1..Len(commits) : Len(QueryPairs(pairs, commits[i].scp_id)) >= 2

\* C22: the registry holds no more than two ProfessionalPair rows for a
\* ServiceCityPair after any create, update or delete of the administrator.
C22_AtMostTwoPairsPerScp ==
    \A s \in ScpIds : Len(QueryPairs(pairs, s)) <= 2

\* C23: the engine writes nothing: the steps of choose_pair_for_service_city
\* (resolve, fetch, lock, count) leave the leads and the pairs as they are.
\* A create_lead that succeeds adds exactly one Lead row, with a new id and
\* the pair the engine returned, and leaves every existing row unchanged;
\* a create_lead that ends otherwise writes no row.
C23_EngineWritesNothing ==
    [][\A r \in Reqs :
         /\ (pc[r] \in {"resolve", "fetch", "lock", "count"} /\ pc'[r] # pc[r])
            => (leads' = leads /\ pairs' = pairs /\ nextLeadId' = nextLeadId)
         /\ (pc[r] = "insert" /\ pc'[r] = "respond")
            => /\ Len(leads') = Len(leads) + 1
               /\ SubSeq(leads', 1, Len(leads)) = leads
               /\ leads'[Len(leads')].pair_id = loc[r].assigned_pair_id
               /\ \A i \in 1..Len(leads) : leads[i].id # leads'[Len(leads')].id
               /\ pairs' = pairs
         /\ (pc[r] # "idle" /\ pc'[r] # pc[r] /\ pc'[r] # "respond")
            => leads' = leads]_vars

\* a second lead has just been committed beside the first
C23_Witness ==
    /\ Len(leads) = 2
    /\ \E r \in Reqs : pc[r] = "respond"

\* C24: the pair_id a lead is stored with is the engine's choice: the pair
\* choose_pair_for_service_city picks from the ledger, the registry and the
\* service and city of the request.  A pair_id in the request body is
\* discarded before the engine runs and has no part in the stored value.
C24_ClientPairDiscarded ==
    [][\A r \in Reqs :
         (pc[r] = "insert" /\ pc'[r] = "respond")
         => /\ leads'[Len(leads')].pair_id = loc[r].assigned_pair_id
            /\ leads'[Len(leads')].pair_id =
                 ChoosePair(leads, pairs, received[r].service_id,
                            received[r].city_id).pair_id]_vars

\* a lead was committed for a request that named pair 104, with another pair
C24_Witness ==
    \E r \in Reqs :
        /\ pc[r] = "respond"
        /\ received[r].pair_id = 104
        /\ leads[Len(leads)].pair_id \in {100, 101}

\* C25: the customer_id a lead is stored with is the id of the Customer whose
\* email is the subject of the token, whatever customer_id the body carries;
\* with a token whose subject matches no Customer the call is rejected with
\* 403 and writes no lead.
C25_CustomerFromToken ==
    /\ [][\A r \in Reqs :
            /\ (pc[r] = "insert" /\ pc'[r] = "respond")
               => /\ leads'[Len(leads')].customer_id = Me(received[r].sub)
                  /\ Me(received[r].sub) # Null
            /\ (pc[r] = "idle" /\ pc'[r] # "idle" /\ Me(received'[r].sub) = Null)
               => /\ pc'[r] = "closing"
                  /\ resp'[r] = HTTPException(403, "Customer not found for this token")
                  /\ leads' = leads]_vars
    /\ [](\A r \in Reqs :
            (pc[r] # "idle" /\ Me(received[r].sub) = Null)
            => (pc[r] = "closing" /\ resp[r].code = 403))

\* jane's request carried omar's customer_id and the lead is jane's
C25_Witness ==
    \E r \in Reqs :
        /\ pc[r] = "respond"
        /\ received[r].sub = "jane@protown.com"
        /\ received[r].customer_id = 2
        /\ leads[Len(leads)].customer_id = 1

\* C26: a create_lead that is rejected (403 for an unknown customer, 400 for
\* a missing or invalid service_id, city_id or state_id, 400 for no
\* ServiceCityPair or fewer than two pairs) is rejected before the lock
\* statement: the call holds no lock and has not reached the lock, and no
\* step it took has changed the ledger.
C26_RejectedBeforeLock ==
    /\ [][\A r \in Reqs :
            /\ (resp'[r].code \in {400, 403} /\ resp[r].code \notin {400, 403})
               => /\ pc[r] \in {"idle", "resolve", "fetch"}
                  /\ pc'[r] = "closing"
                  /\ leads' = leads
                  /\ \A l \in locks' : l[2] # r
            /\ (pc[r] \in {"idle", "resolve", "fetch"} /\ pc'[r] # pc[r])
               => (leads' = leads /\ locks' = locks)]_vars
    /\ [](\A r \in Reqs :
            resp[r].code \in {400, 403}
            => (pc[r] = "closing" /\ \A l \in locks : l[2] # r))

\* a call for a ServiceCityPair with a single pair was rejected while the
\* ledger holds a lead
C26_Witness ==
    \E r \in Reqs :
        /\ pc[r] = "closing"
        /\ resp[r] = HTTPException(400, "Admin must configure two pairs for this service/city")
        /\ Len(leads) >= 1

\* C27: the next assignment depends on the current parity only.  The engine
\* returns pair A when the ledger now holds an even number of leads of A or
\* B and pair B when it holds an odd number, whatever was assigned before;
\* so when the administrator deletes one lead of A or B, or moves one to a
\* pair outside {A, B}, the pair the engine returns next is the opposite of
\* the one it would have returned before.
C27_ParityOfCurrentLedger ==
    /\ [][\A r \in Reqs :
            (pc[r] = "count" /\ pc'[r] = "insert")
            => LET n == Cardinality({i \in 1..Len(leads) :
                          leads[i].pair_id \in {loc[r].pair_a, loc[r].pair_b}})
               IN  loc'[r].assigned_pair_id =
                     IF n % 2 = 0 THEN loc[r].pair_a ELSE loc[r].pair_b]_vars
    /\ [][\A s \in ServiceCityPairs :
            LET ids    == QueryPairs(pairs, s.id)
                before == ChoosePair(leads, pairs, s.service_id, s.city_id).pair_id
                after  == ChoosePair(leads', pairs', s.service_id, s.city_id).pair_id
            IN  (/\ Len(ids) >= 2
                 /\ pc' = pc
                 /\ pairs' = pairs
                 /\ TotalAssigned(leads', ids[1], ids[2])
                       = TotalAssigned(leads, ids[1], ids[2]) - 1)
                => (after # before /\ {after, before} = {ids[1], ids[2]})]_vars

\* the administrator deleted a lead and the engine then assigned the pair of
\* the lead committed last for the ServiceCityPair a second time in a row
C27_Witness ==
    \E r \in Reqs :
        /\ pc[r] = "insert"
        /\ Len(commits) >= 1
        /\ Len(leads) < Len(commits)
        /\ commits[Len(commits)].scp_id = loc[r].scp_id
        /\ commits[Len(commits)].pair_id = loc[r].assigned_pair_id

C29_CommitBeforeNotify ==
    /\ [](\A m \in mail : \E i \in 1..Len(leads) : leads[i].id = m.lead)
    /\ [](\A r \in Reqs :
            pc[r] \in {"mail_customer", "mail_professional_1",
                       "mail_professional_2", "return"}
            => /\ \A l \in locks : l[2] # r
               /\ resp[r] = NoResp
               /\ leads # <<>>)
    /\ [][\A r \in Reqs :
            /\ (mail' # mail /\ mail' # {} /\ pc'[r] # pc[r])
               => /\ leads' = leads
                  /\ resp' = resp
                  /\ pc'[r] \in {"mail_professional_1", "mail_professional_2",
                                 "return"}
            /\ (pc[r] = "return" /\ pc'[r] # "return")
               => (pc'[r] = "closing" /\ resp'[r].code = 201 /\ leads' = leads)]_vars

\* a call has answered 201 although the email to its customer failed; the
\* lead is in the ledger
C29_Witness ==
    \E r \in Reqs :
        /\ pc[r] = "closing"
        /\ resp[r].code = 201
        /\ [lead |-> leads[Len(leads)].id, to |-> "customer", sent |-> FALSE] \in mail
        /\ [lead |-> leads[Len(leads)].id, to |-> "professional_2", sent |-> TRUE] \in mail

====
